---- MODULE Spec2Model ----
(***************************************************************************)
(* Model of to_do_list.py: the task store held by main(), the global undo  *)
(* stack, the data file and the pure helpers (date parsing, repeat rules,  *)
(* identifier resolution) the commands are built from.                     *)
(*                                                                         *)
(* Python values are modelled as follows.                                  *)
(*   str            a TLA+ string (Len, SubSeq and \o work on characters)  *)
(*   Optional[str]  <<>> for None, <<s>> for the string s                  *)
(*   date           <<year, month, day>>, and <<>> for None                *)
(*   dict (a task)  an address into the heap `dicts`                       *)
(*   list of tasks  an address into the heap `lists`                       *)
(* Tasks and lists live in heaps because the program mutates them in place *)
(* and passes references around: whether a snapshot on the undo stack      *)
(* shares objects with the live store is a property of the code, not of    *)
(* the modelling.                                                          *)
(***************************************************************************)
EXTENDS Integers, Sequences, FiniteSets, TLC

(***************************************************************************)
(* Bounds of the model.                                                    *)
(***************************************************************************)
\* number of menu commands read by the main loop in one session
MaxSteps == 3
\* CFG["undo_depth"]; the shipped default is 10, the model uses a small
\* configured value so that eviction happens within MaxSteps commands
undo_depth == 2

(***************************************************************************)
(* Strings.                                                                *)
(***************************************************************************)
None == <<>>
Some(x) == <<x>>

\* s[:-1], s[-1] and s[-n:]
Front(s) == SubSeq(s, 1, Len(s) - 1)
Last(s) == s[Len(s)]
LastN(s, n) == IF Len(s) > n THEN SubSeq(s, Len(s) - n + 1, Len(s)) ELSE s

Char(s, i) == SubSeq(s, i, i)

\* the characters the model's inputs are written in, in code-point order
Ascii == " ,-/0123456789ABCDEFGHIJKLMNOPQRSTUVWXYZabcdefghijklmnopqrstuvwxyz"
UpperCase == "ABCDEFGHIJKLMNOPQRSTUVWXYZ"
LowerCase == "abcdefghijklmnopqrstuvwxyz"
DigitChars == "0123456789"

IndexIn(c, alphabet) ==
    IF \E i \in 1..Len(alphabet) : Char(alphabet, i) = c
    THEN CHOOSE i \in 1..Len(alphabet) : Char(alphabet, i) = c
    ELSE 0

ord(c) == IndexIn(c, Ascii)

IsDigitChar(c) == IndexIn(c, DigitChars) > 0

\* str.isdigit(): non-empty and every character a digit.  Only the decimal
\* digits of Ascii are modelled; str.isdigit() also accepts digit characters
\* such as a superscript two, on which int() raises ValueError.
isdigit(s) == Len(s) > 0 /\ \A i \in 1..Len(s) : IsDigitChar(Char(s, i))

RECURSIVE DigitsValue(_)
DigitsValue(s) ==
    IF Len(s) = 0 THEN 0
    ELSE 10 * DigitsValue(SubSeq(s, 1, Len(s) - 1))
         + (IndexIn(Char(s, Len(s)), DigitChars) - 1)

\* int(s) for the texts the program hands it: an optional sign and digits.
\* Returns None where Python raises ValueError.
int(s) ==
    IF isdigit(s) THEN Some(DigitsValue(s))
    ELSE IF Len(s) > 1 /\ Char(s, 1) = "-" /\ isdigit(SubSeq(s, 2, Len(s)))
         THEN Some(0 - DigitsValue(SubSeq(s, 2, Len(s))))
    ELSE IF Len(s) > 1 /\ Char(s, 1) = "+" /\ isdigit(SubSeq(s, 2, Len(s)))
         THEN Some(DigitsValue(SubSeq(s, 2, Len(s))))
    ELSE None

RECURSIVE lstrip(_)
lstrip(s) ==
    IF Len(s) > 0 /\ Char(s, 1) = " " THEN lstrip(SubSeq(s, 2, Len(s))) ELSE s

RECURSIVE rstrip(_)
rstrip(s) ==
    IF Len(s) > 0 /\ Char(s, Len(s)) = " "
    THEN rstrip(SubSeq(s, 1, Len(s) - 1)) ELSE s

\* str.strip()
strip(s) == rstrip(lstrip(s))

LowerChar(c) ==
    IF IndexIn(c, UpperCase) > 0 THEN Char(LowerCase, IndexIn(c, UpperCase)) ELSE c

RECURSIVE lower(_)
\* str.lower()
lower(s) ==
    IF Len(s) = 0 THEN s
    ELSE LowerChar(Char(s, 1)) \o lower(SubSeq(s, 2, Len(s)))

\* sub in s
contains(sub, s) ==
    \E i \in 0..(Len(s) - Len(sub)) : SubSeq(s, i + 1, i + Len(sub)) = sub

\* s.startswith(prefix)
startswith(s, prefix) ==
    Len(s) >= Len(prefix) /\ SubSeq(s, 1, Len(prefix)) = prefix

RECURSIVE replace(_, _, _)
\* s.replace(old, new) for a one-character old
replace(s, old, new) ==
    IF Len(s) = 0 THEN s
    ELSE (IF Char(s, 1) = old THEN new ELSE Char(s, 1))
         \o replace(SubSeq(s, 2, Len(s)), old, new)

RECURSIVE split(_, _)
\* s.split(sep) for a one-character sep: the fields between the separators
split(s, sep) ==
    IF \E i \in 1..Len(s) : Char(s, i) = sep
    THEN LET i == CHOOSE k \in 1..Len(s) :
                     /\ Char(s, k) = sep
                     /\ \A j \in 1..(k - 1) : Char(s, j) # sep
         IN  <<SubSeq(s, 1, i - 1)>> \o split(SubSeq(s, i + 1, Len(s)), sep)
    ELSE <<s>>

\* s.split(): the non-empty runs between whitespace
split_ws(s) == SelectSeq(split(s, " "), LAMBDA f : Len(f) > 0)

RECURSIVE StrLess(_, _)
\* a < b on str: code-point order, a proper prefix first
StrLess(a, b) ==
    IF Len(b) = 0 THEN FALSE
    ELSE IF Len(a) = 0 THEN TRUE
    ELSE IF Char(a, 1) = Char(b, 1)
         THEN StrLess(SubSeq(a, 2, Len(a)), SubSeq(b, 2, Len(b)))
    ELSE ord(Char(a, 1)) < ord(Char(b, 1))

(***************************************************************************)
(* Dates: datetime.date as <<year, month, day>>.                           *)
(***************************************************************************)
NoDate == <<>>

is_leap(year) == year % 4 = 0 /\ (year % 100 # 0 \/ year % 400 = 0)

days_in_month(year, month) ==
    IF month = 2 THEN (IF is_leap(year) THEN 29 ELSE 28)
    ELSE IF month \in {4, 6, 9, 11} THEN 30 ELSE 31

\* date(year, month, day) succeeds (no ValueError)
ValidDate(year, month, day) ==
    /\ year >= 1 /\ year <= 9999
    /\ month >= 1 /\ month <= 12
    /\ day >= 1 /\ day <= days_in_month(year, month)

RECURSIVE days_before_month(_, _)
days_before_month(year, month) ==
    IF month = 1 THEN 0
    ELSE days_before_month(year, month - 1) + days_in_month(year, month - 1)

days_before_year(year) ==
    LET y == year - 1 IN y * 365 + (y \div 4) - (y \div 100) + (y \div 400)

\* date.toordinal(): 0001-01-01 is day 1
toordinal(d) == days_before_year(d[1]) + days_before_month(d[1], d[2]) + d[3]

\* date.weekday(): Monday is 0
weekday(d) == (toordinal(d) + 6) % 7

NextDay(d) ==
    IF d[3] < days_in_month(d[1], d[2]) THEN <<d[1], d[2], d[3] + 1>>
    ELSE IF d[2] < 12 THEN <<d[1], d[2] + 1, 1>>
    ELSE <<d[1] + 1, 1, 1>>

PrevDay(d) ==
    IF d[3] > 1 THEN <<d[1], d[2], d[3] - 1>>
    ELSE IF d[2] > 1 THEN <<d[1], d[2] - 1, days_in_month(d[1], d[2] - 1)>>
    ELSE <<d[1] - 1, 12, 31>>

RECURSIVE AddDays(_, _)
\* d + timedelta(days=n), for dates away from date.min and date.max
AddDays(d, n) ==
    IF n = 0 THEN d
    ELSE IF n > 0 THEN AddDays(NextDay(d), n - 1)
    ELSE AddDays(PrevDay(d), n + 1)

\* d1 < d2 on dates
DateLess(d1, d2) ==
    \/ d1[1] < d2[1]
    \/ d1[1] = d2[1] /\ d1[2] < d2[2]
    \/ d1[1] = d2[1] /\ d1[2] = d2[2] /\ d1[3] < d2[3]

\* the directives of datetime.strptime, as the sets of texts they accept
YearField(f) == Len(f) = 4 /\ isdigit(f)
MonthField(f) ==
    /\ isdigit(f)
    /\ \/ Len(f) = 2 /\ DigitsValue(f) >= 1 /\ DigitsValue(f) <= 12
       \/ Len(f) = 1 /\ DigitsValue(f) >= 1
DayField(f) ==
    \/ /\ isdigit(f)
       /\ \/ Len(f) = 2 /\ DigitsValue(f) >= 1 /\ DigitsValue(f) <= 31
          \/ Len(f) = 1 /\ DigitsValue(f) >= 1
    \/ Len(f) = 2 /\ Char(f, 1) = " " /\ isdigit(Char(f, 2)) /\ DigitsValue(Char(f, 2)) >= 1

\* datetime.strptime(s, "%Y-%m-%d").date(), None where it raises
strptime_ymd(s) ==
    LET f == split(s, "-") IN
    IF Len(f) = 3 /\ YearField(f[1]) /\ MonthField(f[2]) /\ DayField(f[3])
       /\ ValidDate(DigitsValue(f[1]), DigitsValue(f[2]), DigitsValue(strip(f[3])))
    THEN <<DigitsValue(f[1]), DigitsValue(f[2]), DigitsValue(strip(f[3]))>>
    ELSE NoDate

\* datetime.strptime(s, "%d/%m/%Y").date(), None where it raises
strptime_dmy(s) ==
    LET f == split(s, "/") IN
    IF Len(f) = 3 /\ DayField(f[1]) /\ MonthField(f[2]) /\ YearField(f[3])
       /\ ValidDate(DigitsValue(f[3]), DigitsValue(f[2]), DigitsValue(strip(f[1])))
    THEN <<DigitsValue(f[3]), DigitsValue(f[2]), DigitsValue(strip(f[1]))>>
    ELSE NoDate

parse_date(text) ==
    LET s == strip(text) IN
    IF s = "" THEN NoDate
    ELSE IF strptime_ymd(s) # NoDate THEN strptime_ymd(s)
    ELSE IF strptime_dmy(s) # NoDate THEN strptime_dmy(s)
    ELSE strptime_dmy(replace(s, "-", "/"))

RECURSIVE ZeroPad(_, _)
ZeroPad(s, width) == IF Len(s) >= width THEN s ELSE ZeroPad("0" \o s, width)

\* date.isoformat()
isoformat(d) ==
    ZeroPad(ToString(d[1]), 4) \o "-" \o ZeroPad(ToString(d[2]), 2)
    \o "-" \o ZeroPad(ToString(d[3]), 2)

format_date_for_display(d) == IF d # NoDate THEN isoformat(d) ELSE ""

(***************************************************************************)
(* Repeat rules.                                                           *)
(***************************************************************************)
DayNames ==
    {"mon", "monday", "tue", "tuesday", "wed", "wednesday", "thu", "thursday",
     "fri", "friday", "sat", "saturday", "sun", "sunday"}

day_map(t) ==
    CASE t \in {"mon", "monday"} -> 0
      [] t \in {"tue", "tuesday"} -> 1
      [] t \in {"wed", "wednesday"} -> 2
      [] t \in {"thu", "thursday"} -> 3
      [] t \in {"fri", "friday"} -> 4
      [] t \in {"sat", "saturday"} -> 5
      [] t \in {"sun", "sunday"} -> 6

\* the "monthly" branch with a leap test that forgets the century rule
MonthlyNext_every_fourth_year(d) ==
    LET month0 == d[2] + 1
        month == IF month0 > 12 THEN 1 ELSE month0
        year == IF month0 > 12 THEN d[1] + 1 ELSE d[1]
        feb == IF year % 4 = 0 THEN 29 ELSE 28
        table == <<31, feb, 31, 30, 31, 30, 31, 31, 30, 31, 30, 31>>
        day == IF d[3] < table[month] THEN d[3] ELSE table[month]
    IN  IF ValidDate(year, month, day) THEN <<year, month, day>>
        ELSE AddDays(d, 30)

\* the "monthly" branch: next month, the day clamped by the branch's own table
MonthlyNext(d) ==
    LET month0 == d[2] + 1
        month == IF month0 > 12 THEN 1 ELSE month0
        year == IF month0 > 12 THEN d[1] + 1 ELSE d[1]
        feb == IF year % 4 = 0 /\ (year % 100 # 0 \/ year % 400 = 0) THEN 29 ELSE 28
        table == <<31, feb, 31, 30, 31, 30, 31, 31, 30, 31, 30, 31>>
        day == IF d[3] < table[month] THEN d[3] ELSE table[month]
    IN  IF ValidDate(year, month, day) THEN <<year, month, day>>
        ELSE AddDays(d, 30)

\* the "every N days" branch: the date, or None when the branch falls through
EveryNext(d, rule) ==
    LET parts == split_ws(rule) IN
    IF Len(parts) >= 3 /\ startswith(parts[3], "day") /\ int(parts[2]) # None
    THEN AddDays(d, int(parts[2])[1])
    ELSE NoDate

\* the weekday branch with range(0, 14): the base date itself is a candidate
WeekdayNext_from_base(d, rule) ==
    LET tokens == [i \in 1..Len(split(rule, ",")) |-> strip(split(rule, ",")[i])]
        weekdays == {day_map(tokens[i]) : i \in {j \in 1..Len(tokens) : tokens[j] \in DayNames}}
        hits == {i \in 0..13 : weekday(AddDays(d, i)) \in weekdays}
    IN  IF weekdays = {} \/ hits = {} THEN NoDate
        ELSE AddDays(d, CHOOSE i \in hits : \A j \in hits : i <= j)

\* the weekday branch: the first of d+1 .. d+14 that falls on a listed weekday
WeekdayNext(d, rule) ==
    LET tokens == [i \in 1..Len(split(rule, ",")) |-> strip(split(rule, ",")[i])]
        weekdays == {day_map(tokens[i]) : i \in {j \in 1..Len(tokens) : tokens[j] \in DayNames}}
        hits == {i \in 1..14 : weekday(AddDays(d, i)) \in weekdays}
    IN  IF weekdays = {} \/ hits = {} THEN NoDate
        ELSE AddDays(d, CHOOSE i \in hits : \A j \in hits : i <= j)

\* d: a date or None; repeat: Optional[str]
next_date_for_repeat(d, repeat) ==
    IF d = NoDate \/ repeat = None \/ repeat = Some("") THEN NoDate
    ELSE LET rule == lower(strip(repeat[1])) IN
         IF rule = "daily" THEN AddDays(d, 1)
         ELSE IF rule = "weekly" THEN AddDays(d, 7)
         ELSE IF rule = "monthly" THEN MonthlyNext(d)
         ELSE IF startswith(rule, "every ") /\ EveryNext(d, rule) # NoDate
              THEN EveryNext(d, rule)
         ELSE IF contains(",", rule) \/ rule \in DayNames THEN WeekdayNext(d, rule)
         ELSE NoDate

(***************************************************************************)
(* State.                                                                  *)
(***************************************************************************)
VARIABLES
    dicts,       \* heap of task dicts: address -> task record
    lists,       \* heap of task lists: address -> sequence of dict addresses
    tasks,       \* main()'s local `tasks`: the address of the live list
    UNDO_STACK,  \* the global undo stack: a sequence of list addresses
    CFG,         \* the configuration read by the commands
    file,        \* what to_do.json holds: None, or Some(the saved tasks)
    uuid_count,  \* how many ids uuid.uuid4() has handed out
    out,         \* the menu choice just processed and the lines it printed
    steps,       \* how many menu commands the main loop has processed
    shown,       \* the rows of the table printed last: dict addresses, row 1 first
    probe        \* a call of a pure function: its arguments and, once made, its result

vars == <<dicts, lists, tasks, UNDO_STACK, CFG, file, uuid_count, out, steps,
          shown, probe>>

\* The commands are written as operators on a record of the whole state, so
\* that a command is the composition of the calls its code makes.
World ==
    [dicts |-> dicts, lists |-> lists, tasks |-> tasks,
     UNDO_STACK |-> UNDO_STACK, CFG |-> CFG, file |-> file,
     uuid_count |-> uuid_count, lines |-> <<>>, shown |-> shown]

NoRef == 0

Range(f) == {f[i] : i \in DOMAIN f}

\* the value of the list at address l: its tasks, by value, in order
Deref(w, l) == [i \in 1..Len(w.lists[l]) |-> w.dicts[w.lists[l][i]]]

\* the live store, by value
Store == Deref(World, tasks)

print(w, line) == [w EXCEPT !.lines = Append(w.lines, line)]

(***************************************************************************)
(* Storage and undo stack.                                                 *)
(***************************************************************************)
\* make_backup() writes only under backups/ and is left out.
save_data(w, l) == [w EXCEPT !.file = Some(Deref(w, l))]

autosave(w, l) == IF w.CFG.autosave THEN save_data(w, l) ELSE w

\* push_undo with UNDO_STACK.pop() in place of pop(0): over capacity, the
\* snapshot just pushed is the one dropped
push_undo_drop_newest(w, state) ==
    LET n == Len(w.lists[state])
        base == Len(w.dicts)
        copy_state == Len(w.lists) + 1
        pushed == Append(w.UNDO_STACK, copy_state)
    IN  [w EXCEPT
            !.dicts = w.dicts \o [i \in 1..n |-> w.dicts[w.lists[state][i]]],
            !.lists = Append(w.lists, [i \in 1..n |-> base + i]),
            !.UNDO_STACK = IF Len(pushed) > undo_depth THEN Front(pushed) ELSE pushed]

\* push_undo with list(state) in place of the JSON round trip: a new list
\* of the same dicts
push_undo_shallow(w, state) ==
    LET copy_state == Len(w.lists) + 1
        pushed == Append(w.UNDO_STACK, copy_state)
    IN  [w EXCEPT
            !.lists = Append(w.lists, w.lists[state]),
            !.UNDO_STACK = IF Len(pushed) > undo_depth THEN Tail(pushed) ELSE pushed]

\* json.loads(json.dumps(state)): a new list of new dicts with equal fields
push_undo(w, state) ==
    LET n == Len(w.lists[state])
        base == Len(w.dicts)
        copy_state == Len(w.lists) + 1
        pushed == Append(w.UNDO_STACK, copy_state)
    IN  [w EXCEPT
            !.dicts = w.dicts \o [i \in 1..n |-> w.dicts[w.lists[state][i]]],
            !.lists = Append(w.lists, [i \in 1..n |-> base + i]),
            !.UNDO_STACK = IF Len(pushed) > undo_depth THEN Tail(pushed) ELSE pushed]

\* undo with UNDO_STACK.pop(0) in place of pop(): the oldest snapshot
undo_oldest(w) ==
    IF w.UNDO_STACK = <<>>
    THEN [w |-> print(w, "Nothing to undo."), restored |-> NoRef]
    ELSE LET restored == w.UNDO_STACK[1]
             popped == [w EXCEPT !.UNDO_STACK = Tail(w.UNDO_STACK)]
         IN  [w |-> print(save_data(popped, restored), "Undo successful."),
              restored |-> restored]

\* returns the world and the restored list (NoRef for None)
undo(w) ==
    IF w.UNDO_STACK = <<>>
    THEN [w |-> print(w, "Nothing to undo."), restored |-> NoRef]
    ELSE LET restored == w.UNDO_STACK[Len(w.UNDO_STACK)]
             popped == [w EXCEPT !.UNDO_STACK = SubSeq(w.UNDO_STACK, 1, Len(w.UNDO_STACK) - 1)]
         IN  [w |-> print(save_data(popped, restored), "Undo successful."),
              restored |-> restored]

(***************************************************************************)
(* Task helpers.                                                           *)
(***************************************************************************)
\* str(uuid.uuid4()): a text never handed out before; it holds hyphens
Uuid(k) == "u-" \o ToString(k)

\* datetime.now().isoformat() at the k-th creation: later creations read a
\* later clock, and the texts compare as the times do
Now(k) == "t" \o ZeroPad(ToString(k), 6)

\* new_task with the id derived from the item text instead of uuid4()
new_task_id_from_item(k, item, date_str, priority, repeat, notes) ==
    LET d == parse_date(date_str) IN
    [id |-> "u-" \o strip(item),
     item |-> strip(item),
     date |-> IF d # NoDate THEN format_date_for_display(d) ELSE "",
     priority |-> IF priority # "" THEN lower(priority) ELSE "low",
     completed |-> FALSE,
     repeat |-> repeat,
     notes |-> notes,
     created |-> Now(k)]

\* the dict new_task() returns, the k-th task created in the session
new_task(k, item, date_str, priority, repeat, notes) ==
    LET d == parse_date(date_str) IN
    [id |-> Uuid(k),
     item |-> strip(item),
     date |-> IF d # NoDate THEN format_date_for_display(d) ELSE "",
     priority |-> IF priority # "" THEN lower(priority) ELSE "low",
     completed |-> FALSE,
     repeat |-> repeat,
     notes |-> notes,
     created |-> Now(k)]

\* allocate the dict and append it to the list in place
AppendNew(w, l, task) ==
    [w EXCEPT !.dicts = Append(w.dicts, task),
              !.lists[l] = Append(w.lists[l], Len(w.dicts) + 1),
              !.uuid_count = w.uuid_count + 1]

(***************************************************************************)
(* Commands.                                                               *)
(***************************************************************************)
Priorities == {"high", "medium", "low"}
Yes == {"y", "yes"}

\* find_task_by_identifier returning the first candidate when several match
find_task_by_identifier_guess(w, l, identifier_in) ==
    LET identifier == strip(identifier_in)
        ts == w.lists[l]
        idx == DigitsValue(identifier) - 1
        byId == {i \in 1..Len(ts) : w.dicts[ts[i]].id = identifier}
        matches == SelectSeq(ts, LAMBDA a :
                       contains(lower(identifier), lower(w.dicts[a].item)))
    IN  IF identifier = "" THEN [w |-> w, t |-> NoRef]
        ELSE IF isdigit(identifier) /\ 0 <= idx /\ idx < Len(ts)
             THEN [w |-> w, t |-> ts[idx + 1]]
        ELSE IF byId # {}
             THEN [w |-> w, t |-> ts[CHOOSE i \in byId : \A j \in byId : i <= j]]
        ELSE IF Len(matches) >= 1 THEN [w |-> w, t |-> matches[1]]
        ELSE [w |-> w, t |-> NoRef]

\* Identifier can be numeric index (1-based), full/partial name, or id.
\* Returns the world (it prints) and the task found (NoRef for None).
find_task_by_identifier(w, l, identifier_in) ==
    LET identifier == strip(identifier_in)
        ts == w.lists[l]
        idx == DigitsValue(identifier) - 1
        byId == {i \in 1..Len(ts) : w.dicts[ts[i]].id = identifier}
        matches == SelectSeq(ts, LAMBDA a :
                       contains(lower(identifier), lower(w.dicts[a].item)))
        listing == [i \in 1..Len(matches) |->
                       "  " \o ToString(i) \o ". " \o w.dicts[matches[i]].item
                       \o " (id: " \o w.dicts[matches[i]].id \o ")"]
    IN  IF identifier = "" THEN [w |-> w, t |-> NoRef]
        ELSE IF isdigit(identifier) /\ 0 <= idx /\ idx < Len(ts)
             THEN [w |-> w, t |-> ts[idx + 1]]
        ELSE IF byId # {}
             THEN [w |-> w, t |-> ts[CHOOSE i \in byId : \A j \in byId : i <= j]]
        ELSE IF Len(matches) = 1 THEN [w |-> w, t |-> matches[1]]
        ELSE IF Len(matches) > 1
             THEN [w |-> [w EXCEPT !.lines =
                             w.lines \o <<"Multiple matches found:">> \o listing
                             \o <<"Be more specific or use numeric index.">>],
                   t |-> NoRef]
        ELSE [w |-> w, t |-> NoRef]

\* add_item comparing the items as typed, without .lower()
add_item_case_sensitive(w, item_in, date_in, priority_in, repeat_in, notes_in) ==
    LET l == w.tasks
        item == strip(item_in)
        date_str == strip(date_in)
        typed == lower(strip(priority_in))
        priority0 == IF typed # "" THEN typed ELSE "low"
        priority == IF priority0 \in Priorities THEN priority0 ELSE "low"
        w1 == IF priority0 \in Priorities THEN w
              ELSE print(w, "Invalid priority; defaulting to low.")
        repeat == IF strip(repeat_in) # "" THEN Some(strip(repeat_in)) ELSE None
        notes == strip(notes_in)
        w2 == push_undo(w1, l)
        t == new_task(w2.uuid_count + 1, item, date_str, priority, repeat, notes)
        w3 == AppendNew(w2, l, t)
    IN  IF item = "" THEN print(w, "Empty item; cancelled.")
        ELSE IF \E i \in 1..Len(w.lists[l]) : w.dicts[w.lists[l][i]].item = item
             THEN print(w, "Item already exists.")
        ELSE IF date_str # "" /\ parse_date(date_str) = NoDate
             THEN print(w, "Unrecognized date format. Use YYYY-MM-DD or DD/MM/YYYY.")
        ELSE print(autosave(w3, l), "Item added.")

\* add_item without the `Item already exists.` test
add_item_no_duplicate_test(w, item_in, date_in, priority_in, repeat_in, notes_in) ==
    LET l == w.tasks
        item == strip(item_in)
        date_str == strip(date_in)
        typed == lower(strip(priority_in))
        priority0 == IF typed # "" THEN typed ELSE "low"
        priority == IF priority0 \in Priorities THEN priority0 ELSE "low"
        w1 == IF priority0 \in Priorities THEN w
              ELSE print(w, "Invalid priority; defaulting to low.")
        repeat == IF strip(repeat_in) # "" THEN Some(strip(repeat_in)) ELSE None
        notes == strip(notes_in)
        w2 == push_undo(w1, l)
        t == new_task(w2.uuid_count + 1, item, date_str, priority, repeat, notes)
        w3 == AppendNew(w2, l, t)
    IN  IF item = "" THEN print(w, "Empty item; cancelled.")
        ELSE IF date_str # "" /\ parse_date(date_str) = NoDate
             THEN print(w, "Unrecognized date format. Use YYYY-MM-DD or DD/MM/YYYY.")
        ELSE print(autosave(w3, l), "Item added.")

\* add_item with the `if not item` test made before the strip()
add_item_unstripped_test(w, item_in, date_in, priority_in, repeat_in, notes_in) ==
    LET l == w.tasks
        item == strip(item_in)
        date_str == strip(date_in)
        typed == lower(strip(priority_in))
        priority0 == IF typed # "" THEN typed ELSE "low"
        priority == IF priority0 \in Priorities THEN priority0 ELSE "low"
        w1 == IF priority0 \in Priorities THEN w
              ELSE print(w, "Invalid priority; defaulting to low.")
        repeat == IF strip(repeat_in) # "" THEN Some(strip(repeat_in)) ELSE None
        notes == strip(notes_in)
        w2 == push_undo(w1, l)
        t == new_task(w2.uuid_count + 1, item, date_str, priority, repeat, notes)
        w3 == AppendNew(w2, l, t)
    IN  IF item_in = "" THEN print(w, "Empty item; cancelled.")
        ELSE IF \E i \in 1..Len(w.lists[l]) :
                    lower(w.dicts[w.lists[l][i]].item) = lower(item)
             THEN print(w, "Item already exists.")
        ELSE IF date_str # "" /\ parse_date(date_str) = NoDate
             THEN print(w, "Unrecognized date format. Use YYYY-MM-DD or DD/MM/YYYY.")
        ELSE print(autosave(w3, l), "Item added.")

add_item(w, item_in, date_in, priority_in, repeat_in, notes_in) ==
    LET l == w.tasks
        item == strip(item_in)
        date_str == strip(date_in)
        typed == lower(strip(priority_in))
        priority0 == IF typed # "" THEN typed ELSE "low"
        priority == IF priority0 \in Priorities THEN priority0 ELSE "low"
        w1 == IF priority0 \in Priorities THEN w
              ELSE print(w, "Invalid priority; defaulting to low.")
        repeat == IF strip(repeat_in) # "" THEN Some(strip(repeat_in)) ELSE None
        notes == strip(notes_in)
        w2 == push_undo(w1, l)
        t == new_task(w2.uuid_count + 1, item, date_str, priority, repeat, notes)
        w3 == AppendNew(w2, l, t)
    IN  IF item = "" THEN print(w, "Empty item; cancelled.")
        ELSE IF \E i \in 1..Len(w.lists[l]) :
                    lower(w.dicts[w.lists[l][i]].item) = lower(item)
             THEN print(w, "Item already exists.")
        ELSE IF date_str # "" /\ parse_date(date_str) = NoDate
             THEN print(w, "Unrecognized date format. Use YYYY-MM-DD or DD/MM/YYYY.")
        ELSE print(autosave(w3, l), "Item added.")

\* main(), choice "1": push_undo(tasks); tasks = add_item(tasks)
main_add(w, item_in, date_in, priority_in, repeat_in, notes_in) ==
    add_item(push_undo(w, w.tasks), item_in, date_in, priority_in, repeat_in, notes_in)

remove_item(w, identifier_in, confirm_in) ==
    LET l == w.tasks
        f == find_task_by_identifier(w, l, strip(identifier_in))
        t == f.t
        w1 == push_undo(f.w, l)
        kept == SelectSeq(w1.lists[l], LAMBDA x : w1.dicts[x].id # w1.dicts[t].id)
        new_list == Len(w1.lists) + 1
        w2 == [w1 EXCEPT !.lists = Append(w1.lists, kept), !.tasks = new_list]
    IN  IF t = NoRef THEN print(f.w, "Item not found or ambiguous.")
        ELSE IF lower(strip(confirm_in)) \notin Yes THEN print(f.w, "Cancelled.")
        ELSE print(autosave(w2, new_list), "Deleted.")

\* rename_item with push_undo(tasks) called after the assignment
rename_item_push_after(w, identifier_in, name_in) ==
    LET l == w.tasks
        f == find_task_by_identifier(w, l, strip(identifier_in))
        t == f.t
        new_name == strip(name_in)
        w1 == [f.w EXCEPT !.dicts[t].item = new_name]
        w2 == push_undo(w1, l)
    IN  IF t = NoRef THEN print(f.w, "Not found.")
        ELSE IF new_name = "" THEN print(f.w, "Empty name; cancelled.")
        ELSE print(autosave(w2, l), "Renamed.")

rename_item(w, identifier_in, name_in) ==
    LET l == w.tasks
        f == find_task_by_identifier(w, l, strip(identifier_in))
        t == f.t
        new_name == strip(name_in)
        w1 == push_undo(f.w, l)
        w2 == [w1 EXCEPT !.dicts[t].item = new_name]
    IN  IF t = NoRef THEN print(f.w, "Not found.")
        ELSE IF new_name = "" THEN print(f.w, "Empty name; cancelled.")
        ELSE print(autosave(w2, l), "Renamed.")

\* change_priority without the `new_p not in PRIORITIES` test
change_priority_unchecked(w, identifier_in, priority_in) ==
    LET l == w.tasks
        f == find_task_by_identifier(w, l, strip(identifier_in))
        t == f.t
        new_p == lower(strip(priority_in))
        w1 == push_undo(f.w, l)
        w2 == [w1 EXCEPT !.dicts[t].priority = new_p]
    IN  IF t = NoRef THEN print(f.w, "Not found.")
        ELSE print(autosave(w2, l), "Priority updated.")

change_priority(w, identifier_in, priority_in) ==
    LET l == w.tasks
        f == find_task_by_identifier(w, l, strip(identifier_in))
        t == f.t
        new_p == lower(strip(priority_in))
        w1 == push_undo(f.w, l)
        w2 == [w1 EXCEPT !.dicts[t].priority = new_p]
    IN  IF t = NoRef THEN print(f.w, "Not found.")
        ELSE IF new_p \notin Priorities THEN print(f.w, "Invalid priority.")
        ELSE print(autosave(w2, l), "Priority updated.")

\* change_date with push_undo(tasks) called before the date is validated
change_date_push_first(w, identifier_in, date_in) ==
    LET l == w.tasks
        f == find_task_by_identifier(w, l, strip(identifier_in))
        t == f.t
        new_date == strip(date_in)
        w1 == push_undo(f.w, l)
        w2 == [w1 EXCEPT !.dicts[t].date = new_date]
    IN  IF t = NoRef THEN print(f.w, "Not found.")
        ELSE IF new_date # "" /\ parse_date(new_date) = NoDate
             THEN print(w1, "Invalid date format.")
        ELSE print(autosave(w2, l), "Date updated.")

change_date(w, identifier_in, date_in) ==
    LET l == w.tasks
        f == find_task_by_identifier(w, l, strip(identifier_in))
        t == f.t
        new_date == strip(date_in)
        w1 == push_undo(f.w, l)
        w2 == [w1 EXCEPT !.dicts[t].date = new_date]
    IN  IF t = NoRef THEN print(f.w, "Not found.")
        ELSE IF new_date # "" /\ parse_date(new_date) = NoDate
             THEN print(f.w, "Invalid date format.")
        ELSE print(autosave(w2, l), "Date updated.")

\* toggle_done without the t["completed"] test: un-completing spawns too
toggle_done_always_spawns(w, identifier_in) ==
    LET l == w.tasks
        f == find_task_by_identifier(w, l, strip(identifier_in))
        t == f.t
        w1 == push_undo(f.w, l)
        w2 == [w1 EXCEPT !.dicts[t].completed = ~w1.dicts[t].completed]
        task == w2.dicts[t]
        d == parse_date(task.date)
        next_d == next_date_for_repeat(d, task.repeat)
        new == new_task(w2.uuid_count + 1, task.item, isoformat(next_d),
                        task.priority, task.repeat, task.notes)
        w3 == IF task.repeat # None /\ task.repeat # Some("") /\ next_d # NoDate
              THEN print(AppendNew(w2, l, new),
                         "Next occurrence created for repeating task.")
              ELSE w2
    IN  IF t = NoRef THEN print(f.w, "Not found.")
        ELSE print(autosave(w3, l),
                   IF task.completed THEN "Marked done." ELSE "Marked not done.")

\* toggle_done that spawns no second copy: no spawn when the list already
\* holds a task with the item and the next date
toggle_done_spawns_once(w, identifier_in) ==
    LET l == w.tasks
        f == find_task_by_identifier(w, l, strip(identifier_in))
        t == f.t
        w1 == push_undo(f.w, l)
        w2 == [w1 EXCEPT !.dicts[t].completed = ~w1.dicts[t].completed]
        task == w2.dicts[t]
        d == parse_date(task.date)
        next_d == next_date_for_repeat(d, task.repeat)
        new == new_task(w2.uuid_count + 1, task.item, isoformat(next_d),
                        task.priority, task.repeat, task.notes)
        w3 == IF task.completed /\ task.repeat # None /\ task.repeat # Some("")
                 /\ next_d # NoDate
                 /\ ~\E i \in 1..Len(w2.lists[l]) :
                        /\ w2.dicts[w2.lists[l][i]].item = task.item
                        /\ w2.dicts[w2.lists[l][i]].date = isoformat(next_d)
              THEN print(AppendNew(w2, l, new),
                         "Next occurrence created for repeating task.")
              ELSE w2
    IN  IF t = NoRef THEN print(f.w, "Not found.")
        ELSE print(autosave(w3, l),
                   IF task.completed THEN "Marked done." ELSE "Marked not done.")

toggle_done(w, identifier_in) ==
    LET l == w.tasks
        f == find_task_by_identifier(w, l, strip(identifier_in))
        t == f.t
        w1 == push_undo(f.w, l)
        w2 == [w1 EXCEPT !.dicts[t].completed = ~w1.dicts[t].completed]
        task == w2.dicts[t]
        d == parse_date(task.date)
        next_d == next_date_for_repeat(d, task.repeat)
        new == new_task(w2.uuid_count + 1, task.item, isoformat(next_d),
                        task.priority, task.repeat, task.notes)
        w3 == IF task.completed /\ task.repeat # None /\ task.repeat # Some("")
                 /\ next_d # NoDate
              THEN print(AppendNew(w2, l, new),
                         "Next occurrence created for repeating task.")
              ELSE w2
    IN  IF t = NoRef THEN print(f.w, "Not found.")
        ELSE print(autosave(w3, l),
                   IF task.completed THEN "Marked done." ELSE "Marked not done.")

edit_notes(w, identifier_in, notes_in) ==
    LET l == w.tasks
        f == find_task_by_identifier(w, l, strip(identifier_in))
        t == f.t
        w1 == push_undo(f.w, l)
        w2 == [w1 EXCEPT !.dicts[t].notes = strip(notes_in)]
    IN  IF t = NoRef THEN print(f.w, "Not found.")
        ELSE print(autosave(w2, l), "Notes updated.")

\* clear_completed keeping a completed task that has a repeat rule
clear_completed_keeps_repeating(w, confirm_in) ==
    LET l == w.tasks
        completed == SelectSeq(w.lists[l], LAMBDA a : w.dicts[a].completed)
        w1 == push_undo(w, l)
        kept == SelectSeq(w1.lists[l], LAMBDA a : \/ ~w1.dicts[a].completed
                                                  \/ w1.dicts[a].repeat # None)
        new_list == Len(w1.lists) + 1
        w2 == [w1 EXCEPT !.lists = Append(w1.lists, kept), !.tasks = new_list]
    IN  IF completed = <<>> THEN print(w, "No completed tasks to clear.")
        ELSE IF lower(strip(confirm_in)) \notin Yes THEN print(w, "Cancelled.")
        ELSE print(autosave(w2, new_list), "Completed tasks cleared.")

clear_completed(w, confirm_in) ==
    LET l == w.tasks
        completed == SelectSeq(w.lists[l], LAMBDA a : w.dicts[a].completed)
        w1 == push_undo(w, l)
        kept == SelectSeq(w1.lists[l], LAMBDA a : ~w1.dicts[a].completed)
        new_list == Len(w1.lists) + 1
        w2 == [w1 EXCEPT !.lists = Append(w1.lists, kept), !.tasks = new_list]
    IN  IF completed = <<>> THEN print(w, "No completed tasks to clear.")
        ELSE IF lower(strip(confirm_in)) \notin Yes THEN print(w, "Cancelled.")
        ELSE print(autosave(w2, new_list), "Completed tasks cleared.")

\* print_table: one numbered row per task of the list it is given, in the
\* list's order; of a row only the number and the item are kept
RowNumber(i) == (IF i < 10 THEN " " ELSE "") \o ToString(i)

RECURSIVE print_rows(_, _, _)
print_rows(w, rows, i) ==
    IF i > Len(rows) THEN w
    ELSE print_rows(print(w, RowNumber(i) \o ". " \o w.dicts[rows[i]].item), rows, i + 1)

print_table(w, rows) ==
    IF rows = <<>> THEN print(w, "Nothing to display.")
    ELSE [print_rows(w, rows, 1) EXCEPT !.shown = rows]

list_all(w, show_completed) ==
    LET l == w.tasks
        to_show == IF show_completed THEN w.lists[l]
                   ELSE SelectSeq(w.lists[l], LAMBDA a : ~w.dicts[a].completed)
    IN  print_table(w, to_show)

\* main(), choice "5"
main_list_completed(w) ==
    print_table(w, SelectSeq(w.lists[w.tasks], LAMBDA a : w.dicts[a].completed))

search_tasks(w, query_in) ==
    LET q == lower(strip(query_in))
        found == SelectSeq(w.lists[w.tasks],
                           LAMBDA a : \/ contains(q, lower(w.dicts[a].item))
                                      \/ contains(q, lower(w.dicts[a].notes)))
    IN  IF q = "" THEN print(w, "Empty query.")
        ELSE IF found = <<>> THEN print(w, "No results.")
        ELSE print_table(w, found)

(***************************************************************************)
(* Startup notifications.                                                  *)
(***************************************************************************)
NoBuckets == [overdue |-> <<>>, due_today |-> <<>>, upcoming |-> <<>>]

\* the loop of notify_startup with `days <= 0` in its first test
RECURSIVE notify_loop_today_overdue(_, _, _, _)
notify_loop_today_overdue(ts, today, reminder_days, acc) ==
    IF ts = <<>> THEN acc
    ELSE LET t == Head(ts)
             d == IF t.date # "" THEN parse_date(t.date) ELSE NoDate
             days == toordinal(d) - toordinal(today)
             acc1 ==
                 IF d = NoDate THEN acc
                 ELSE IF days <= 0 /\ ~t.completed
                      THEN [acc EXCEPT !.overdue = Append(@, t)]
                 ELSE IF days = 0 /\ ~t.completed
                      THEN [acc EXCEPT !.due_today = Append(@, t)]
                 ELSE IF 0 < days /\ days <= reminder_days /\ ~t.completed
                      THEN [acc EXCEPT !.upcoming = Append(@, <<t, days>>)]
                 ELSE acc
         IN  notify_loop_today_overdue(Tail(ts), today, reminder_days, acc1)

notify_startup_today_overdue(ts, today, reminder_days) ==
    notify_loop_today_overdue(ts, today, reminder_days, NoBuckets)

\* the loop of notify_startup over the tasks still to visit
RECURSIVE notify_loop(_, _, _, _)
notify_loop(ts, today, reminder_days, acc) ==
    IF ts = <<>> THEN acc
    ELSE LET t == Head(ts)
             d == IF t.date # "" THEN parse_date(t.date) ELSE NoDate
             days == toordinal(d) - toordinal(today)
             acc1 ==
                 IF d = NoDate THEN acc
                 ELSE IF days < 0 /\ ~t.completed
                      THEN [acc EXCEPT !.overdue = Append(@, t)]
                 ELSE IF days = 0 /\ ~t.completed
                      THEN [acc EXCEPT !.due_today = Append(@, t)]
                 ELSE IF 0 < days /\ days <= reminder_days /\ ~t.completed
                      THEN [acc EXCEPT !.upcoming = Append(@, <<t, days>>)]
                 ELSE acc
         IN  notify_loop(Tail(ts), today, reminder_days, acc1)

\* the three lists notify_startup builds from the tasks (by value), with
\* date.today() and CFG["reminder_days"] as arguments; the tables it then
\* prints show the first ten of each
notify_startup(ts, today, reminder_days) ==
    notify_loop(ts, today, reminder_days, NoBuckets)

undo_command(w) ==
    LET u == undo(w) IN
    IF u.restored # NoRef THEN [u.w EXCEPT !.tasks = u.restored] ELSE u.w

\* save_config() writes only config.json and is left out.
toggle_autosave(w) ==
    LET flipped == [w EXCEPT !.CFG.autosave = ~w.CFG.autosave] IN
    print(flipped, IF flipped.CFG.autosave THEN "Autosave: ON" ELSE "Autosave: OFF")

\* list.sort(key=...): the stable ordering of seq by a strict order on keys
StableSort(seq, Less(_, _)) ==
    LET n == Len(seq)
        Before(i, j) == Less(seq[i], seq[j])
                        \/ (~Less(seq[j], seq[i]) /\ i < j)
        Rank(i) == Cardinality({j \in 1..n : j # i /\ Before(j, i)}) + 1
    IN  [p \in 1..n |-> seq[CHOOSE i \in 1..n : Rank(i) = p]]

DateMax == <<9999, 12, 31>>

priority_order(p) ==
    CASE p = "high" -> 0 [] p = "medium" -> 1 [] p = "low" -> 2 [] OTHER -> 3

\* sort_tasks without the save_data(tasks) under autosave
sort_tasks_unsaved(w, choice_in) ==
    LET l == w.tasks
        choice == strip(choice_in)
        task(a) == w.dicts[a]
        date_key(a) == IF parse_date(task(a).date) # NoDate
                       THEN parse_date(task(a).date) ELSE DateMax
        ByName(a, b) == StrLess(lower(task(a).item), lower(task(b).item))
        ByDate(a, b) == DateLess(date_key(a), date_key(b))
        ByPriority(a, b) ==
            priority_order(task(a).priority) < priority_order(task(b).priority)
        ByDone(a, b) == ~task(a).completed /\ task(b).completed
        ByCreated(a, b) == StrLess(task(a).created, task(b).created)
        sorted == CASE choice = "1" -> StableSort(w.lists[l], ByName)
                    [] choice = "2" -> StableSort(w.lists[l], ByDate)
                    [] choice = "3" -> StableSort(w.lists[l], ByPriority)
                    [] choice = "4" -> StableSort(w.lists[l], ByDone)
                    [] choice = "5" -> StableSort(w.lists[l], ByCreated)
                    [] OTHER -> w.lists[l]
        w1 == [w EXCEPT !.lists[l] = sorted]
    IN  IF choice \notin {"1", "2", "3", "4", "5"} THEN print(w, "Cancelled.")
        ELSE print(w1, "Sorted.")

sort_tasks(w, choice_in) ==
    LET l == w.tasks
        choice == strip(choice_in)
        task(a) == w.dicts[a]
        date_key(a) == IF parse_date(task(a).date) # NoDate
                       THEN parse_date(task(a).date) ELSE DateMax
        ByName(a, b) == StrLess(lower(task(a).item), lower(task(b).item))
        ByDate(a, b) == DateLess(date_key(a), date_key(b))
        ByPriority(a, b) ==
            priority_order(task(a).priority) < priority_order(task(b).priority)
        ByDone(a, b) == ~task(a).completed /\ task(b).completed
        ByCreated(a, b) == StrLess(task(a).created, task(b).created)
        sorted == CASE choice = "1" -> StableSort(w.lists[l], ByName)
                    [] choice = "2" -> StableSort(w.lists[l], ByDate)
                    [] choice = "3" -> StableSort(w.lists[l], ByPriority)
                    [] choice = "4" -> StableSort(w.lists[l], ByDone)
                    [] choice = "5" -> StableSort(w.lists[l], ByCreated)
                    [] OTHER -> w.lists[l]
        w1 == [w EXCEPT !.lists[l] = sorted]
    IN  IF choice \notin {"1", "2", "3", "4", "5"} THEN print(w, "Cancelled.")
        ELSE print(autosave(w1, l), "Sorted.")

(***************************************************************************)
(* What the user types.                                                    *)
(***************************************************************************)
\* the five answers to add_item's prompts: item, date, priority, repeat, notes
AddInputs ==
    {<<"", "", "", "", "">>,
     <<"  ", "", "", "", "">>,
     <<"a", "01/06/2024", "High", "weekly", " n ">>,
     <<"A ", "", "", "", "">>,
     <<"a2", "2024-06-07", "urgent", "mon", "">>,
     <<"c", "31/02/2024", "low", "", "">>}

Identifiers == {"", "1", "2", "a", "u-1"}
Confirms == {"y", "n"}
NameInputs == {" ", "A"}
PriorityInputs == {"HIGH ", "urgent"}
DateInputs == {"", "1-7-2024", "soon"}
NotesInputs == {" m"}
SortChoices == {"", "1", "2", "3", "4", "5"}

(***************************************************************************)
(* The main loop.                                                          *)
(***************************************************************************)
\* no call of a pure function is being followed
NoCall == [call |-> "none"]

\* load_data() with no to_do.json returns a new empty list; nothing is due
Init ==
    /\ dicts = <<>>
    /\ lists = << <<>> >>
    /\ tasks = 1
    /\ UNDO_STACK = <<>>
    /\ CFG = [autosave |-> TRUE]
    /\ file = None
    /\ uuid_count = 0
    /\ out = [choice |-> "", lines |-> <<>>]
    /\ steps = 0
    /\ shown = <<>>
    /\ probe = NoCall

\* one pass of the loop: the choice is read, the command runs to its end
Do(choice, w) ==
    /\ steps < MaxSteps
    /\ dicts' = w.dicts
    /\ lists' = w.lists
    /\ tasks' = w.tasks
    /\ UNDO_STACK' = w.UNDO_STACK
    /\ CFG' = w.CFG
    /\ file' = w.file
    /\ uuid_count' = w.uuid_count
    /\ out' = [choice |-> choice, lines |-> w.lines]
    /\ steps' = steps + 1
    /\ shown' = w.shown
    /\ probe' = probe

AddItem == \E i \in AddInputs : Do("1", main_add(World, i[1], i[2], i[3], i[4], i[5]))
RemoveItem == \E i \in Identifiers, c \in Confirms : Do("2", remove_item(World, i, c))
RenameItem == \E i \in Identifiers, n \in NameInputs : Do("6", rename_item(World, i, n))
ToggleDone == \E i \in Identifiers : Do("7", toggle_done(World, i))
ChangePriority == \E i \in Identifiers, p \in PriorityInputs : Do("8", change_priority(World, i, p))
ChangeDate == \E i \in Identifiers, d \in DateInputs : Do("9", change_date(World, i, d))
EditNotes == \E i \in Identifiers, n \in NotesInputs : Do("10", edit_notes(World, i, n))
SortTasks == \E c \in SortChoices : Do("12", sort_tasks(World, c))
ClearCompleted == \E c \in Confirms : Do("14", clear_completed(World, c))
Undo == Do("15", undo_command(World))
ToggleAutosave == Do("16", toggle_autosave(World))

Next ==
    \/ AddItem
    \/ RemoveItem
    \/ RenameItem
    \/ ToggleDone
    \/ ChangePriority
    \/ ChangeDate
    \/ EditNotes
    \/ SortTasks
    \/ ClearCompleted
    \/ Undo
    \/ ToggleAutosave

Spec == Init /\ [][Next]_vars

(***************************************************************************)
(* The main loop with the commands that print a table: the listings and    *)
(* the search, between adds and toggles.                                   *)
(***************************************************************************)
SearchInputs == {"", "2", "A ", "zz"}

ListAll == Do("3", list_all(World, TRUE))
ListActive == Do("4", list_all(World, FALSE))
ListCompleted == Do("5", main_list_completed(World))
Search == \E q \in SearchInputs : Do("11", search_tasks(World, q))

NextListing ==
    \/ AddItem
    \/ ToggleDone
    \/ ListAll
    \/ ListActive
    \/ ListCompleted
    \/ Search

SpecListing == Init /\ [][NextListing]_vars

(***************************************************************************)
(* The main loop started on a to_do.json that an earlier session wrote:    *)
(* load_data(), the default sort, the startup notifications, then toggles, *)
(* adds, clears and undos.                                                 *)
(***************************************************************************)
SavedTask(k, item, date, repeat, completed) ==
    [id |-> Uuid(k), item |-> item, date |-> date, priority |-> "low",
     completed |-> completed, repeat |-> repeat, notes |-> "", created |-> Now(k)]

\* what the file can hold: lists of task dicts, as save_data writes them
SavedFiles ==
    {<< SavedTask(1, "a", "2024-06-03", Some("weekly"), FALSE) >>,
     << SavedTask(1, "x", "2024-06-05", None, FALSE),
        SavedTask(2, "a", "2024-06-01", Some("mon"), FALSE) >>,
     << SavedTask(1, "a", "", Some("daily"), FALSE) >>,
     << SavedTask(1, "a", "2024-01-31", Some("monthly"), TRUE),
        SavedTask(2, "a", "2024-02-29", Some("monthly"), FALSE) >>}

\* load_data() on a file of task dicts; the conversion of the old
\* list-of-lists shape is left out, no file drawn has it
load_data(f) == IF f = None THEN <<>> ELSE f[1]

\* DEFAULT_CONFIG["reminder_days"]
reminder_days == 3

\* date.today() at startup
StartToday == <<2024, 6, 2>>

\* main()'s default sort, DEFAULT_CONFIG["default_sort"]: by date, ascending
default_sort(ds, l) ==
    LET date_key(a) == IF parse_date(ds[a].date) # NoDate
                       THEN parse_date(ds[a].date) ELSE DateMax
        ByDate(a, b) == DateLess(date_key(a), date_key(b))
    IN  StableSort(l, ByDate)

\* the list of the last table notify_startup prints: the last non-empty one
\* among overdue, due today and upcoming
last_table(r) ==
    IF r.upcoming # <<>> THEN [i \in 1..Len(r.upcoming) |-> r.upcoming[i][1]]
    ELSE IF r.due_today # <<>> THEN r.due_today
    ELSE r.overdue

\* rows[:10]
first_ten(rows) == SubSeq(rows, 1, IF Len(rows) < 10 THEN Len(rows) ELSE 10)

\* the address of the dict that the task t is
address_of(ds, t) == CHOOSE a \in 1..Len(ds) : ds[a].id = t.id

startup_rows(ds, l) ==
    first_ten(last_table(notify_startup([i \in 1..Len(l) |-> ds[l[i]]],
                                        StartToday, reminder_days)))

\* the rows of that table, as addresses
startup_shown(ds, l) ==
    [i \in 1..Len(startup_rows(ds, l)) |-> address_of(ds, startup_rows(ds, l)[i])]

\* main() up to its loop: load_data(), the default sort, notify_startup()
InitLoaded ==
    \E f \in SavedFiles :
        LET ds == load_data(Some(f))
            l == default_sort(ds, [i \in 1..Len(ds) |-> i])
        IN  /\ file = Some(f)
            /\ dicts = ds
            /\ lists = << l >>
            /\ tasks = 1
            /\ UNDO_STACK = <<>>
            /\ CFG = [autosave |-> TRUE]
            /\ uuid_count = Len(ds)
            /\ out = [choice |-> "", lines |-> <<>>]
            /\ steps = 0
            /\ shown = startup_shown(ds, l)
            /\ probe = NoCall

NextLoaded ==
    \/ AddItem
    \/ ToggleDone
    \/ ClearCompleted
    \/ Undo

SpecLoaded == InitLoaded /\ [][NextLoaded]_vars

(***************************************************************************)
(* Calls of next_date_for_repeat and notify_startup on their own: the      *)
(* arguments are drawn at the start, the call is one step.                 *)
(***************************************************************************)
\* base dates: month ends, leap days, a century year with and without one
ProbeYears == {1900, 2000, 2023, 2024}
ProbeDays == {1, 15, 28, 29, 30, 31}
ProbeDates ==
    {x \in ProbeYears \X (1..12) \X ProbeDays : ValidDate(x[1], x[2], x[3])}

ProbeRules ==
    {"daily", "weekly", "monthly", " Monthly ",
     "every 5 days", "Every 1 Day", "every +2 days", "every 0 days",
     "every -3 days", "every x days", "every 2.5 days", "every days",
     "every 2 days,mon",
     "mon", "Friday", "sat,sun", "Mon, wed ,FRI", "tue,xyz", "thursday,thu",
     "xyz,abc", "someday"}

\* how many tasks a scanned list holds at most
MaxScan == 2

ScanTodays == {<<2024, 3, 1>>, <<2023, 12, 31>>}
ScanReminderDays == {0, 3}
\* a task's date, in days from today; none for a task without a date
ScanOffsets == {-1, 0, 1, 3, 4}

ScanTask(k, today, offset, completed) ==
    [id |-> Uuid(k), item |-> "t" \o ToString(k),
     date |-> IF offset = None THEN "" ELSE isoformat(AddDays(today, offset[1])),
     priority |-> "low", completed |-> completed, repeat |-> None, notes |-> "",
     created |-> Now(k)]

ScanLists ==
    UNION {[1..n -> ({None} \cup {Some(o) : o \in ScanOffsets}) \X BOOLEAN] :
           n \in 0..MaxScan}

NextDateCalls ==
    {[call |-> "next_date_for_repeat", date_obj |-> d, repeat |-> Some(r),
      done |-> FALSE, result |-> NoDate] : d \in ProbeDates, r \in ProbeRules}

NotifyCalls ==
    {[call |-> "notify_startup",
      tasks |-> [k \in 1..Len(c) |-> ScanTask(k, today, c[k][1], c[k][2])],
      today |-> today, reminder_days |-> rd,
      done |-> FALSE, result |-> NoBuckets] :
        today \in ScanTodays, c \in ScanLists, rd \in ScanReminderDays}

InitCalls ==
    /\ dicts = <<>>
    /\ lists = << <<>> >>
    /\ tasks = 1
    /\ UNDO_STACK = <<>>
    /\ CFG = [autosave |-> TRUE]
    /\ file = None
    /\ uuid_count = 0
    /\ out = [choice |-> "", lines |-> <<>>]
    /\ steps = 0
    /\ shown = <<>>
    /\ probe \in NextDateCalls \cup NotifyCalls

CallNextDate ==
    /\ probe.call = "next_date_for_repeat"
    /\ ~probe.done
    /\ probe' = [probe EXCEPT
                    !.done = TRUE,
                    !.result = next_date_for_repeat(probe.date_obj, probe.repeat)]
    /\ UNCHANGED <<dicts, lists, tasks, UNDO_STACK, CFG, file, uuid_count, out,
                   steps, shown>>

CallNotify ==
    /\ probe.call = "notify_startup"
    /\ ~probe.done
    /\ probe' = [probe EXCEPT
                    !.done = TRUE,
                    !.result = notify_startup(probe.tasks, probe.today,
                                              probe.reminder_days)]
    /\ UNCHANGED <<dicts, lists, tasks, UNDO_STACK, CFG, file, uuid_count, out,
                   steps, shown>>

NextCalls ==
    \/ CallNextDate
    \/ CallNotify

SpecCalls == InitCalls /\ [][NextCalls]_vars

(***************************************************************************)
(* Vocabulary of the properties.                                           *)
(***************************************************************************)

\* the value of the snapshot (or any list) at address a in the current state
Snap(a) == Deref(World, a)

\* the value of the list at address a after the step
SnapNext(a) == [i \in 1..Len(lists'[a]) |-> dicts'[lists'[a][i]]]

\* the last line the command just processed printed
Said(line) == out.lines # <<>> /\ Last(out.lines) = line

SuccessLines ==
    {"Item added.", "Deleted.", "Renamed.", "Priority updated.", "Date updated.",
     "Marked done.", "Marked not done.", "Notes updated.", "Completed tasks cleared."}

\* the command just processed was one of the eight mutating operations and
\* it went through
Mutated == out.lines # <<>> /\ Last(out.lines) \in SuccessLines

\* the snapshots a step put on the stack, oldest first
Pushed == SelectSeq(UNDO_STACK', LAMBDA a : a \notin Range(UNDO_STACK))

\* the live store after an undo invoked in the current state
StoreAfterUndo == LET u == undo_command(World) IN Deref(u, u.tasks)

(***************************************************************************)
(* C1: each mutating operation that goes through pushes the pre-mutation   *)
(* state exactly once, and no other command (a rejected or cancelled one   *)
(* in particular) touches the history, undo aside.                         *)
(***************************************************************************)
C1_PushStep ==
    IF out'.choice = "15" THEN TRUE
    ELSE IF Mutated' THEN /\ Len(Pushed) = 1
                          /\ SnapNext(Pushed[1]) = Store
    ELSE UNDO_STACK' = UNDO_STACK

C1_OnePushPerMutation == [][C1_PushStep]_vars

(***************************************************************************)
(* C2: after any mutating operation that went through on a store S, an     *)
(* undo invoked immediately gives back S: same tasks, fields and order.    *)
(***************************************************************************)
C2_UndoReverses == [][Mutated' => StoreAfterUndo' = Store]_vars

\* a mutation that really changed the store has just gone through
C2_Witness == Mutated /\ StoreAfterUndo # Store

(***************************************************************************)
(* C3: the history never holds more than undo_depth snapshots, and a push  *)
(* that would exceed it drops the oldest: after a pushing command the      *)
(* history is the undo_depth most recent of the old snapshots followed by  *)
(* the new ones, in push order.                                            *)
(***************************************************************************)
C3_Bounded == Len(UNDO_STACK) <= undo_depth

C3_PushStep ==
    (out'.choice = "1" \/ Mutated') =>
        /\ Pushed # <<>>
        /\ UNDO_STACK' = LastN(UNDO_STACK \o Pushed, undo_depth)

C3_DepthCap == [](C3_Bounded) /\ [][C3_PushStep]_vars

\* two commands, the second a push onto a full history: the first snapshot
\* of the session (list 2) has been evicted
C3_Witness ==
    /\ steps = 2 /\ out.choice # "15"
    /\ Len(UNDO_STACK) = undo_depth
    /\ UNDO_STACK[1] > 2

(***************************************************************************)
(* C4: a snapshot in the history never changes: while it stays on the      *)
(* stack its value is the same after every command, a snapshot just pushed *)
(* holds the store as it was when the command began, and the store an undo *)
(* restores is the popped snapshot as it stood on the stack.               *)
(***************************************************************************)
C4_Step ==
    /\ \A a \in Range(UNDO_STACK) \cap Range(UNDO_STACK') : SnapNext(a) = Snap(a)
    /\ \A a \in Range(UNDO_STACK') \ Range(UNDO_STACK) : SnapNext(a) = Store
    /\ (out'.choice = "15" /\ UNDO_STACK # <<>>) => Store' = Snap(Last(UNDO_STACK))

C4_SnapshotsFrozen == [][C4_Step]_vars

\* a task was changed in place after a snapshot holding it was pushed
C4_Witness ==
    \E a \in Range(UNDO_STACK) : \E i \in 1..Len(Snap(a)) : \E j \in 1..Len(Store) :
        Snap(a)[i].id = Store[j].id /\ Snap(a)[i] # Store[j]

(***************************************************************************)
(* C5: undo on an empty history says so and changes neither the store nor  *)
(* the history; undo on a non-empty history removes exactly the most       *)
(* recent snapshot and the store becomes equal to it.                      *)
(***************************************************************************)
C5_UndoStep ==
    out'.choice = "15" =>
        IF UNDO_STACK = <<>>
        THEN /\ Said("Nothing to undo.")'
             /\ UNDO_STACK' = <<>>
             /\ tasks' = tasks /\ Store' = Store
        ELSE /\ Said("Undo successful.")'
             /\ UNDO_STACK' = Front(UNDO_STACK)
             /\ Store' = Snap(Last(UNDO_STACK))

C5_UndoPops == [][C5_UndoStep]_vars

\* an undo has just restored a non-empty snapshot and left older ones behind
C5_Witness ==
    /\ out.choice = "15" /\ Said("Undo successful.")
    /\ Store # <<>> /\ UNDO_STACK # <<>>

(***************************************************************************)
(* C6: adding an item that equals an existing task's item but for case is  *)
(* refused ("Item already exists.") and the store stays as it was: no task *)
(* appended, no field and no position changed.                             *)
(***************************************************************************)
HasItem(item) ==
    LET st == Store IN \E k \in 1..Len(st) : lower(st[k].item) = lower(item)

C6_Step ==
    \A i \in AddInputs :
        (out'.choice = "1" /\ HasItem(strip(i[1])) /\ Do("1", main_add(World, i[1], i[2], i[3], i[4], i[5])))
        => (Store' = Store /\ Said("Item already exists.")')

C6_DuplicateRefused == [][C6_Step]_vars

\* the store holds "A" alone and the add just refused typed "a" or "A "
C6_Witness ==
    /\ out.choice = "1" /\ Said("Item already exists.")
    /\ Len(Store) = 1 /\ Store[1].item = "A"

(***************************************************************************)
(* C7: toggling a not-completed task whose repeat rule yields a next date  *)
(* completes it, leaves its date and every other task alone, and appends   *)
(* exactly one task: fresh id, same item, priority, repeat and notes, the  *)
(* next date, not completed.  Any other toggle only flips the flag.        *)
(***************************************************************************)
\* where the task at address t sits in the live list
PositionOf(t) == CHOOSE p \in 1..Len(lists[tasks]) : lists[tasks][p] = t

C7_Step ==
    \A i \in Identifiers :
        LET t == find_task_by_identifier(World, tasks, i).t
            p == PositionOf(t)
            old == Store[p]
            next_d == next_date_for_repeat(parse_date(old.date), old.repeat)
            new == Store'[Len(Store')]
        IN  (out'.choice = "7" /\ t # NoRef /\ Do("7", toggle_done(World, i))) =>
                IF ~old.completed /\ old.repeat \notin {None, Some("")} /\ next_d # NoDate
                THEN /\ Len(Store') = Len(Store) + 1
                     /\ SubSeq(Store', 1, Len(Store)) = [Store EXCEPT ![p].completed = TRUE]
                     /\ \A a \in DOMAIN dicts : dicts[a].id # new.id
                     /\ new.item = old.item
                     /\ new.priority = old.priority
                     /\ new.repeat = old.repeat
                     /\ new.notes = old.notes
                     /\ new.date = isoformat(next_d)
                     /\ parse_date(new.date) = next_d
                     /\ new.completed = FALSE
                ELSE Store' = [Store EXCEPT ![p].completed = ~old.completed]

C7_ToggleSpawns == [][C7_Step]_vars

\* the weekly task dated 01/06/2024 was completed and its successor appended
C7_Witness ==
    /\ out.choice = "7" /\ Said("Marked done.")
    /\ Len(Store) = 2
    /\ Store[1].completed /\ Store[1].date = "2024-06-01"
    /\ ~Store[2].completed /\ Store[2].date = "2024-06-08"

(***************************************************************************)
(* C8: an identifier that is positive-integer text n is a 1-based position *)
(* in the current order: the task at n when n is in range, no task when it *)
(* is not, with no fallback to id or name matching.                        *)
(***************************************************************************)
C8_NumericIsPositional ==
    \A i \in {x \in Identifiers : isdigit(x) /\ DigitsValue(x) >= 1} :
        LET n == DigitsValue(i)
            t == find_task_by_identifier(World, tasks, i).t
        IN  IF n <= Len(lists[tasks]) THEN t = lists[tasks][n] ELSE t = NoRef

(***************************************************************************)
(* C9: resolution by name.                                                 *)
(***************************************************************************)
InRangeIndex(i) == isdigit(i) /\ DigitsValue(i) >= 1 /\ DigitsValue(i) <= Len(lists[tasks])
ExactId(i) == LET st == Store IN \E k \in 1..Len(st) : st[k].id = i
NameMatches(i) ==
    LET st == Store IN {k \in 1..Len(st) : contains(lower(i), lower(st[k].item))}

\* what the name rule says of identifier i: found iff exactly one item
\* contains it, and then that task; the candidates are listed iff there are
\* several
ByNameRule(i) ==
    LET f == find_task_by_identifier(World, tasks, i) IN
    /\ f.t # NoRef <=> Cardinality(NameMatches(i)) = 1
    /\ f.t # NoRef => NameMatches(i) = {PositionOf(f.t)}
    /\ f.w.lines # <<>> <=> Cardinality(NameMatches(i)) > 1

IdentifierCommand(i) ==
    \/ out'.choice = "2" /\ \E c \in Confirms : Do("2", remove_item(World, i, c))
    \/ out'.choice = "6" /\ \E n \in NameInputs : Do("6", rename_item(World, i, n))
    \/ out'.choice = "7" /\ Do("7", toggle_done(World, i))
    \/ out'.choice = "8" /\ \E q \in PriorityInputs : Do("8", change_priority(World, i, q))
    \/ out'.choice = "9" /\ \E d \in DateInputs : Do("9", change_date(World, i, d))
    \/ out'.choice = "10" /\ \E n \in NotesInputs : Do("10", edit_notes(World, i, n))

C9_Resolve ==
    \A i \in Identifiers :
        /\ (i # "" /\ ~InRangeIndex(i) /\ ~ExactId(i)) => ByNameRule(i)
        /\ i = "" => find_task_by_identifier(World, tasks, i).t = NoRef

C9_CallerStep ==
    \A i \in Identifiers :
        (/\ out'.choice \in {"2", "6", "7", "8", "9", "10"}
         /\ find_task_by_identifier(World, tasks, i).t = NoRef
         /\ IdentifierCommand(i))
        => UNCHANGED <<dicts, lists, tasks, UNDO_STACK, file>>

C10_UniqueIds ==
    LET st == Store IN \A i, j \in 1..Len(st) : i # j => st[i].id # st[j].id

\* the store holds a task and the successor a recurrence spawned from it
C10_Witness ==
    \E i, j \in 1..Len(Store) :
        i # j /\ Store[i].item = Store[j].item /\ Store[i].id # Store[j].id

(***************************************************************************)
(* C11: starting from the empty store, every task's priority is one of     *)
(* high, medium and low: an add that types anything else stores low, a     *)
(* change of priority to anything else is refused and changes nothing, and *)
(* a task spawned by a recurrence has the priority of its original.        *)
(***************************************************************************)
C11_AllValid == \A i \in 1..Len(Store) : Store[i].priority \in Priorities

C11_Step ==
    LET st == Store IN
    /\ out'.choice = "1" =>
           \A i \in AddInputs :
               (/\ Do("1", main_add(World, i[1], i[2], i[3], i[4], i[5]))
                /\ Said("Item added.")'
                /\ lower(strip(i[3])) \notin Priorities)
               => Last(Store').priority = "low"
    /\ out'.choice = "8" =>
           \A i \in Identifiers, p \in PriorityInputs :
               (/\ Do("8", change_priority(World, i, p))
                /\ lower(strip(p)) \notin Priorities)
               => Store' = st /\ ~Said("Priority updated.")'
    /\ (out'.choice = "7" /\ Len(Store') = Len(st) + 1) =>
           \E k \in 1..Len(st) : /\ st[k].completed = FALSE
                                 /\ Store'[k].completed = TRUE
                                 /\ Last(Store').priority = st[k].priority

C11_PriorityValid == [](C11_AllValid) /\ [][C11_Step]_vars

\* a refused change of priority after an add that typed "urgent"
C11_Witness ==
    /\ out.choice = "8"
    /\ Said("Invalid priority.")
    /\ \E i \in 1..Len(Store) : Store[i].item = "a2" /\ Store[i].priority = "low"

(***************************************************************************)
(* C12: every task's item is non-empty: an add whose item is empty once    *)
(* trimmed, and a rename whose new name is empty once trimmed, are refused *)
(* and leave the store as it was.                                          *)
(***************************************************************************)
C12_AllNamed == \A i \in 1..Len(Store) : Store[i].item # ""

C12_Step ==
    LET st == Store IN
    /\ out'.choice = "1" =>
           \A i \in AddInputs :
               (/\ Do("1", main_add(World, i[1], i[2], i[3], i[4], i[5]))
                /\ strip(i[1]) = "")
               => Store' = st /\ Said("Empty item; cancelled.")'
    /\ out'.choice = "6" =>
           \A i \in Identifiers, n \in NameInputs :
               (/\ Do("6", rename_item(World, i, n))
                /\ strip(n) = "")
               => Store' = st /\ ~Said("Renamed.")'

C12_ItemNonEmpty == [](C12_AllNamed) /\ [][C12_Step]_vars

\* a rename to a blank name was just refused on a store that has a task
C12_Witness ==
    /\ out.choice = "6"
    /\ Said("Empty name; cancelled.")
    /\ Store # <<>>

(***************************************************************************)
(* C13: every stored date is either empty or the canonical YYYY-MM-DD text *)
(* of a valid calendar date, whichever accepted format was typed when the  *)
(* task was added or its date changed.                                     *)
(***************************************************************************)
IsCanonical(text) ==
    LET d == parse_date(text) IN d # NoDate /\ text = isoformat(d)

C13_CanonicalDates ==
    \A i \in 1..Len(Store) : Store[i].date = "" \/ IsCanonical(Store[i].date)

(***************************************************************************)
(* C14: a confirmed clear of completed tasks removes exactly the completed *)
(* ones: the store afterwards is the not-completed tasks in their original *)
(* order with every field as it was, and as many tasks are gone as were    *)
(* completed before.                                                       *)
(***************************************************************************)
NumCompleted(st) == Len(SelectSeq(st, LAMBDA t : t.completed))

C14_Step ==
    out'.choice = "14" =>
        LET st == Store IN
        \A c \in Confirms :
            (/\ Do("14", clear_completed(World, c))
             /\ lower(strip(c)) \in Yes
             /\ NumCompleted(st) > 0)
            => /\ Store' = SelectSeq(st, LAMBDA t : ~t.completed)
               /\ Len(st) - Len(Store') = NumCompleted(st)
               /\ Said("Completed tasks cleared.")'

C15_Untouched(st) ==
    /\ Store' = st
    /\ UNDO_STACK' = UNDO_STACK
    /\ \A k \in 1..Len(UNDO_STACK) : SnapNext(UNDO_STACK[k]) = Snap(UNDO_STACK[k])
    /\ out'.lines # <<>> /\ Last(out'.lines) \notin SuccessLines

C15_Step ==
    LET st == Store IN
    /\ out'.choice = "6" =>
           \A i \in Identifiers, n \in NameInputs :
               (/\ Do("6", rename_item(World, i, n))
                /\ \/ find_task_by_identifier(World, tasks, strip(i)).t = NoRef
                   \/ strip(n) = "")
               => C15_Untouched(st)
    /\ out'.choice = "8" =>
           \A i \in Identifiers, p \in PriorityInputs :
               (/\ Do("8", change_priority(World, i, p))
                /\ \/ find_task_by_identifier(World, tasks, strip(i)).t = NoRef
                   \/ lower(strip(p)) \notin Priorities)
               => C15_Untouched(st)
    /\ out'.choice = "9" =>
           \A i \in Identifiers, d \in DateInputs :
               Do("9", change_date(World, i, d)) =>
                   LET t == find_task_by_identifier(World, tasks, strip(i)).t
                   IN  IF t = NoRef \/ (strip(d) # "" /\ parse_date(strip(d)) = NoDate)
                       THEN C15_Untouched(st)
                       ELSE strip(d) = "" =>
                                /\ Said("Date updated.")'
                                /\ Store' = [st EXCEPT ![PositionOf(t)].date = ""]

C15_RejectedLeavesAll == [][C15_Step]_vars

\* a dated task just had its date cleared by an empty answer
C15_Witness ==
    /\ out.choice = "9"
    /\ Said("Date updated.")
    /\ \E i \in 1..Len(Store) : Store[i].item = "a" /\ Store[i].date = ""
    /\ UNDO_STACK # <<>>
    /\ \E i \in 1..Len(Snap(Last(UNDO_STACK))) :
           Snap(Last(UNDO_STACK))[i].date = "2024-06-01"

(***************************************************************************)
(* C16: for the rule "monthly" the next occurrence of a base date d is the *)
(* date in the month after d's (January of the next year after December)   *)
(* whose day is the smaller of d's day and that month's last day, February *)
(* having 29 days exactly in leap years (divisible by 4 and not by 100, or *)
(* divisible by 400).                                                      *)
(***************************************************************************)
C16_LastDay(y, m) ==
    IF m = 2 THEN (IF (y % 4 = 0 /\ y % 100 # 0) \/ y % 400 = 0 THEN 29 ELSE 28)
    ELSE IF m \in {4, 6, 9, 11} THEN 30
    ELSE 31

NextDateCalled == probe.call = "next_date_for_repeat" /\ probe.done

C16_MonthlyClamps ==
    (NextDateCalled /\ lower(strip(probe.repeat[1])) = "monthly") =>
        LET d == probe.date_obj
            y == IF d[2] = 12 THEN d[1] + 1 ELSE d[1]
            m == IF d[2] = 12 THEN 1 ELSE d[2] + 1
            last == C16_LastDay(y, m)
        IN  probe.result = <<y, m, IF d[3] <= last THEN d[3] ELSE last>>

\* the 31st of January of a leap year went to the 29th of February
C16_Witness ==
    /\ NextDateCalled
    /\ probe.repeat = Some("monthly")
    /\ probe.date_obj = <<2024, 1, 31>>
    /\ probe.result = <<2024, 2, 29>>

(***************************************************************************)
(* C17: for a base date d and a rule that is a comma-separated list of     *)
(* weekday tokens with at least one recognised name (full or three-letter, *)
(* in any case), the next occurrence is d + k for the smallest k >= 1      *)
(* whose weekday is listed, and k is between 1 and 7: the 14-day cap never *)
(* makes the result absent.                                                *)
(***************************************************************************)
C17_Tokens(rule) ==
    LET parts == split(lower(strip(rule)), ",")
    IN  {strip(parts[i]) : i \in 1..Len(parts)}

C17_Weekdays(rule) == {day_map(t) : t \in C17_Tokens(rule) \cap DayNames}

\* a list of weekday tokens, as told from the "every N days" form
C17_WeekdayRule(rule) ==
    /\ C17_Weekdays(rule) # {}
    /\ ~startswith(lower(strip(rule)), "every ")

C18_EveryRule(rule) ==
    startswith(lower(strip(rule)), "every ") /\ ~contains(",", rule)

C18_N(rule) ==
    LET parts == split_ws(lower(strip(rule)))
    IN  IF Len(parts) >= 3 /\ startswith(parts[3], "day") THEN int(parts[2]) ELSE None

C18_EveryNDays ==
    NextDateCalled =>
        LET d == probe.date_obj
            rule == probe.repeat[1]
        IN  /\ C18_EveryRule(rule) =>
                   IF C18_N(rule) # None /\ C18_N(rule)[1] > 0
                   THEN probe.result = AddDays(d, C18_N(rule)[1])
                   ELSE probe.result = NoDate
            /\ probe.result # NoDate => DateLess(d, probe.result)

(***************************************************************************)
(* C19: the startup scan of a task list, for a reference date and a        *)
(* lookahead of L days, puts a task in overdue exactly when it is not      *)
(* completed and its date is before the reference date, in due-today       *)
(* exactly when it is not completed and its date is the reference date,    *)
(* and in upcoming, with its offset, exactly when it is not completed and  *)
(* its date is 1..L days after the reference date; each bucket keeps the   *)
(* store's order, no task is in two buckets, completed and undated tasks   *)
(* are in none, and the tasks come out as they went in.                    *)
(***************************************************************************)
C19_Date(t) == IF t.date = "" THEN NoDate ELSE parse_date(t.date)

C19_Ids(bucket) == {bucket[i].id : i \in 1..Len(bucket)}

C19_ScanClassifies ==
    (probe.call = "notify_startup" /\ probe.done) =>
        LET ts == probe.tasks
            today == probe.today
            L == probe.reminder_days
            r == probe.result
            Overdue(t) ==
                ~t.completed /\ C19_Date(t) # NoDate /\ DateLess(C19_Date(t), today)
            DueToday(t) == ~t.completed /\ C19_Date(t) = today
            Upcoming(t) ==
                ~t.completed /\ \E k \in 1..L : C19_Date(t) = AddDays(today, k)
            up == SelectSeq(ts, Upcoming)
            coming == [i \in 1..Len(r.upcoming) |-> r.upcoming[i][1]]
        IN  /\ r.overdue = SelectSeq(ts, Overdue)
            /\ r.due_today = SelectSeq(ts, DueToday)
            /\ coming = up
            /\ \A i \in 1..Len(up) :
                   /\ r.upcoming[i][2] \in 1..L
                   /\ AddDays(today, r.upcoming[i][2]) = C19_Date(up[i])
            /\ C19_Ids(r.overdue) \cap C19_Ids(r.due_today) = {}
            /\ C19_Ids(r.overdue) \cap C19_Ids(coming) = {}
            /\ C19_Ids(r.due_today) \cap C19_Ids(coming) = {}
            /\ \A t \in Range(ts) :
                   (t.completed \/ C19_Date(t) = NoDate) =>
                       t.id \notin C19_Ids(r.overdue) \cup C19_Ids(r.due_today)
                                   \cup C19_Ids(coming)

\* an overdue task and one due on the last day of the lookahead
C19_Witness ==
    /\ probe.call = "notify_startup"
    /\ probe.done
    /\ probe.reminder_days = 3
    /\ Len(probe.result.overdue) = 1
    /\ Len(probe.result.upcoming) = 1
    /\ probe.result.upcoming[1][2] = 3
    /\ probe.result.upcoming[1][1] = probe.tasks[1]

(***************************************************************************)
(* C20: a number typed as the identifier of remove, rename, toggle, change *)
(* priority, change date or edit notes resolves to the task shown under    *)
(* that number in the listing printed last, the filtered listings (active  *)
(* only, completed, search results) included.                              *)
(***************************************************************************)
ListingPrinted ==
    /\ out.choice \in {"3", "4", "5", "11"}
    /\ out.lines # <<>>
    /\ Last(out.lines) \notin {"Nothing to display.", "No results.", "Empty query."}

C20_IndexFollowsListing ==
    ListingPrinted =>
        \A n \in 1..Len(shown) :
            find_task_by_identifier(World, tasks, ToString(n)).t = shown[n]

(***************************************************************************)
(* C21: with autosave on (and no I/O failure), right after every command   *)
(* that changes the in-memory task list (add, remove, rename, change       *)
(* priority, change date, toggle done, edit notes, sort, clear completed,  *)
(* undo) the data file holds the in-memory task sequence, task for task    *)
(* and in the same order.                                                  *)
(***************************************************************************)
ListChangingLines == SuccessLines \cup {"Sorted.", "Undo successful."}

C21_Step ==
    (/\ CFG.autosave
     /\ out'.choice \in {"1", "2", "6", "7", "8", "9", "10", "12", "14", "15"}
     /\ \/ Store' # Store
        \/ Last(out'.lines) \in ListChangingLines)
    => file' = Some(Store')

C21_FileFollowsMemory == [][C21_Step]_vars

\* a sort just reordered two tasks and the file holds the new order
C21_Witness ==
    /\ CFG.autosave
    /\ out.choice = "12"
    /\ Said("Sorted.")
    /\ Len(Store) = 2
    /\ StrLess(Store[2].created, Store[1].created)
    /\ file = Some(Store)

(***************************************************************************)
(* C22: the duplicate test of add as an invariant of the store: in every   *)
(* state reached from the empty store by any commands, no two tasks have   *)
(* items that are equal when case is ignored.                              *)
(***************************************************************************)
DuplicatePairs(st) ==
    {<<i, j>> \in (1..Len(st)) \X (1..Len(st)) :
        i < j /\ lower(st[i].item) = lower(st[j].item)}

C22_NoDuplicates == DuplicatePairs(Store) = {}

(***************************************************************************)
(* C22, as it holds: the test is made by add alone. No add, remove, change *)
(* of priority, change of date, edit of notes, sort or clear of completed  *)
(* tasks raises the number of pairs of tasks with items equal when case is *)
(* ignored; only a rename, the spawn of a toggle and an undo can raise it. *)
(***************************************************************************)
C22_Step ==
    out'.choice \in {"1", "2", "8", "9", "10", "12", "14"} =>
        Cardinality(DuplicatePairs(Store')) <= Cardinality(DuplicatePairs(Store))

C22_OnlyAddTests == [][C22_Step]_vars

\* an add just went through next to a task of another name, and one more
\* add of the same name in another case is refused
C22_Witness ==
    /\ out.choice = "1"
    /\ Said("Item added.")
    /\ Len(Store) = 2
    /\ DuplicatePairs(Store) = {}
    /\ \E i \in AddInputs :
           LET w == main_add(World, i[1], i[2], i[3], i[4], i[5])
           IN  /\ \E k \in 1..Len(Store) : Store[k].item # strip(i[1])
                                         /\ lower(Store[k].item) = lower(strip(i[1]))
               /\ Last(w.lines) = "Item already exists."

(***************************************************************************)
(* C23: a repeating task spawns its next occurrence at most once: however  *)
(* often the task is toggled (done, undone, done again) with its date and  *)
(* rule as they are, the store holds at most one task spawned from it,     *)
(* with its item and its next-occurrence date.                             *)
(***************************************************************************)
\* the next-occurrence date of a task, as text; "" when it has none
NextDateOf(t) ==
    LET nd == IF t.date = "" THEN NoDate
              ELSE next_date_for_repeat(parse_date(t.date), t.repeat)
    IN  IF nd = NoDate THEN "" ELSE isoformat(nd)

\* the positions of the tasks of st that look spawned from t
Occurrences(st, t) ==
    {j \in 1..Len(st) : /\ st[j].id # t.id
                        /\ st[j].item = t.item
                        /\ st[j].repeat = t.repeat
                        /\ st[j].date = NextDateOf(t)}

C23_SpawnsAtMostOnce ==
    \A i \in 1..Len(Store) :
        NextDateOf(Store[i]) # "" => Cardinality(Occurrences(Store, Store[i])) <= 1

(***************************************************************************)
(* C23, as it holds: a repeating task spawns its next occurrence once per  *)
(* toggle to done: each toggle that marks the task done appends one more   *)
(* task with its item and its next-occurrence date, whether or not the     *)
(* store already holds one, and each toggle that marks it not done appends *)
(* none.                                                                   *)
(***************************************************************************)
C23_Step ==
    out'.choice = "7" =>
        LET st == Store IN
        \A i \in Identifiers :
            LET t == find_task_by_identifier(World, tasks, strip(i)).t IN
            (Do("7", toggle_done(World, i)) /\ t # NoRef) =>
                LET old == st[PositionOf(t)] IN
                NextDateOf(old) # "" =>
                    Cardinality(Occurrences(Store', old)) =
                        Cardinality(Occurrences(st, old))
                        + (IF old.completed THEN 0 ELSE 1)

C23_SpawnsPerCompletion == [][C23_Step]_vars

\* the task was marked done, not done and done again: two tasks spawned
\* from it, with its item and the same date
C23_Witness ==
    /\ out.choice = "7"
    /\ Said("Marked done.")
    /\ \E i \in 1..Len(Store) :
           /\ Store[i].completed
           /\ Cardinality(Occurrences(Store, Store[i])) = 2

====
